---- MODULE Spec2Model ----
(***************************************************************************)
(* The chunked scrape-and-upload pipeline of ContractingMainScraper and    *)
(* ServicesMainScraper (the two classes are line-for-line the same         *)
(* pipeline; line numbers below are those of contracting_code_main.py).    *)
(*                                                                         *)
(* One action is one atomic segment of a coroutine: the code that runs     *)
(* between two awaits of the asyncio event loop.                           *)
(***************************************************************************)
EXTENDS Integers, Sequences, FiniteSets, TLC

\* ------------------------------------------------------------------ bounds
\* Largest category map of a run.
MaxCategories == 3
\* Largest page_count of a source.
MaxPageCount == 2
\* Most cards of a fetched page the filter is tried on.
MaxCards == 2
\* How often the wall clock may pass midnight during a run.
MaxMidnights == 1
\* Longest date_published string the filter is tried on.
MaxStrLen == 2
\* Largest category map the partition is tried on.
MaxItems == 12
\* Largest chunk size the partition is tried on.
MaxChunk == 5
\* Largest batch of files the upload call is tried on.
MaxFiles == 2
\* Most brand elements the medical-services page shows.
MaxBrands == 3

\* ------------------------------------------------------- program constants
DefaultChunkSize == 2
DefaultMaxConcurrentLinks == 2
upload_retries == 3

\* ----------------------------------------------------------------- strings
\* A string is a sequence of characters; None is the one value that is no
\* string (a missing key and an explicit null read the same through .get).
None == <<"None">>
Whitespace == {" "}
Chars == {"0", "1", " "}

\* Python truthiness of a str-or-None value: None and "" are falsy.
Truthy(v) == v # None /\ v # <<>>

\* strftime("%Y-%m-%d") of day number d: the day's own digit string.
DayDigit(d) == IF d = 0 THEN "0" ELSE IF d = 1 THEN "1" ELSE "2"
FormatDate(d) == <<DayDigit(d)>>

\* str.split() without arguments: the maximal runs of non-whitespace
\* characters, in order; leading and trailing whitespace yields no token.
RECURSIVE split_acc(_, _, _)
split_acc(s, cur, out) ==
    IF s = <<>>
    THEN IF cur = <<>> THEN out ELSE Append(out, cur)
    ELSE IF Head(s) \in Whitespace
         THEN split_acc(Tail(s), <<>>, IF cur = <<>> THEN out ELSE Append(out, cur))
         ELSE split_acc(Tail(s), Append(cur, Head(s)), out)

split(s) == split_acc(s, <<>>, <<>>)

\* ------------------------------------------------------------ record filter
\* The condition written to reject a value that starts with whitespace.
filter_cond_first_char(card, yesterday) ==
    IF ~Truthy(card.date_published) THEN "false"
    ELSE IF card.date_published[1] \in Whitespace THEN "false"
    ELSE IF split(card.date_published)[1] = yesterday THEN "true" ELSE "false"

\* The condition of the filter's if-statement on one card: "true", "false",
\* or "IndexError" when split() yields no token and [0] is taken of [].
filter_cond(card, yesterday) ==
    IF ~Truthy(card.date_published) THEN "false"
    ELSE IF split(card.date_published) = <<>> THEN "IndexError"
    ELSE IF split(card.date_published)[1] = yesterday THEN "true" ELSE "false"

\* The for-loop over the cards of one fetched page: cards are appended in
\* order until the condition raises, which ends the loop with the exception.
RECURSIVE filter_cards(_, _, _)
filter_cards(cards, yesterday, acc) ==
    IF cards = <<>> THEN [card_data |-> acc, raised |-> FALSE]
    ELSE LET c == filter_cond(Head(cards), yesterday) IN
         IF c = "IndexError" THEN [card_data |-> acc, raised |-> TRUE]
         ELSE filter_cards(Tail(cards), yesterday,
                           IF c = "true" THEN Append(acc, Head(cards)) ELSE acc)

\* ---------------------------------------------------------- chunk partition
\* range(0, n, step) from i on.
RECURSIVE range_from(_, _, _)
range_from(i, n, step) ==
    IF i >= n THEN <<>> ELSE <<i>> \o range_from(i + step, n, step)

\* A slice that stops one item early.
slice_one_short(items, lo, hi) ==
    LET top == IF hi - 1 < Len(items) THEN hi - 1 ELSE Len(items)
    IN  [k \in 1..(IF top > lo THEN top - lo ELSE 0) |-> items[lo + k]]

\* Python items[lo:hi] (0-based, hi clamped to the length).
slice(items, lo, hi) ==
    LET top == IF hi < Len(items) THEN hi ELSE Len(items)
    IN  [k \in 1..(IF top > lo THEN top - lo ELSE 0) |-> items[lo + k]]

\* [items[i : i + size] for i in range(0, len(items), size)]
make_chunks(items, size) ==
    LET starts == range_from(0, Len(items), size)
    IN  [k \in 1..Len(starts) |-> slice(items, starts[k], starts[k] + size)]


\* -------------------------------------------------------------- the state
VARIABLES
    today,                          \* the wall clock's day number (datetime.now())
    self,                           \* the scraper object's configuration fields
    pc,                             \* where scrape_all_contractingANDservices stands
    contractingANDservices_chunks,  \* the partition of the category map
    chunk_index,                    \* enumerate(..., 1) index of the current chunk
    tasks,                          \* the scrape tasks of the current chunk
    awaited,                        \* how many of them the second loop has awaited
    semaphore,                      \* free slots of asyncio.Semaphore
    pending_uploads,                \* the current chunk's written files
    disk,                           \* the Excel files present locally
    up,                             \* locals of the running upload_files_with_retry
    clean_idx,                      \* position of the cleanup loop
    drive,                          \* the store: the session and its date folders
    hist,                           \* what the current chunk, and the run, did so far
    pure                            \* input and result of a function tried alone

vars == <<today, self, pc, contractingANDservices_chunks, chunk_index, tasks,
          awaited, semaphore, pending_uploads, disk, up, clean_idx, drive,
          hist, pure>>

mainVars == <<today, self, pc, contractingANDservices_chunks, chunk_index, tasks,
              awaited, semaphore, pending_uploads, disk, up, clean_idx, drive,
              hist>>

\* ----------------------------------------------------------------- inputs
SeqsUpTo(S, n) == UNION {[1..k -> S] : k \in 0..n}

\* A source of a category: (url_template, page_count).
\* Categories alternate between one source of MaxPageCount pages and two
\* sources of one page each, so both loops of the scraper iterate.
urls_of(i) ==
    IF i % 2 = 1 THEN << <<"t", MaxPageCount>> >>
    ELSE << <<"t", 1>>, <<"u", 1>> >>

\* The category map of n entries, as list(dict.items()): insertion order.
category_map(n) == [i \in 1..n |-> <<i, urls_of(i)>>]

\* What get_card_details may return for a page: no card, a card without a
\* date, a card published on day 0 (the date, then a time), and a card whose
\* date is only whitespace followed by a card published on day 0.
PageChoices ==
    { <<>>,
      <<None>>,
      << <<"0", " ", "1">> >>,
      << <<" ">>, <<"0", " ", "1">> >> }

\* datetime.now() as a day number: the clock never runs backwards, and may
\* have passed midnight since it was last read.
now_choices == today..(1 + MaxMidnights)

\* Outcomes of the setup block.
SetupOutcomes == {"ok", "no_env", "bad_json", "auth_error"}

\* str(Path(f"{name}.xlsx"))
excel_path(name) == <<name, ".xlsx">>

\* -------------------------------------------------------------- observers
\* The first whitespace-delimited token of s is y (y holds no whitespace).
first_token_is(s, y) ==
    \E i \in 1..Len(s) :
        /\ \A k \in 1..(i - 1) : s[k] \in Whitespace
        /\ s[i] \notin Whitespace
        /\ i + Len(y) - 1 <= Len(s)
        /\ SubSeq(s, i, i + Len(y) - 1) = y
        /\ (i + Len(y) - 1 = Len(s) \/ s[i + Len(y)] \in Whitespace)

\* The substring of s up to its first whitespace character is y.
prefix_is(s, y) ==
    /\ Len(s) >= Len(y)
    /\ SubSeq(s, 1, Len(y)) = y
    /\ (Len(s) = Len(y) \/ s[Len(y) + 1] \in Whitespace)

\* A card that carries the date y as its first token.
is_match(card, y) ==
    Truthy(card.date_published) /\ first_token_is(card.date_published, y)

\* The cards of a page as the scraper sees them, each knowing its page.
tag_cards(dates, key) ==
    [k \in 1..Len(dates) |-> [date_published |-> dates[k], page |-> key]]

matches_of(cards, y) == SelectSeq(cards, LAMBDA c : is_match(c, y))

\* ------------------------------------------------------------ scrape task
new_task(name, urls) ==
    [name |-> name, urls |-> urls, status |-> "created", yesterday |-> <<>>,
     src |-> 1, page |-> 1, card_data |-> <<>>,
     expected |-> <<>>, fetched |-> <<>>, fetch_failed |-> {}, logged |-> {}]

\* A page loop that runs one page past page_count.
next_pos_one_more(t) ==
    IF t.page <= t.urls[t.src][2]
    THEN [t EXCEPT !.page = @ + 1]
    ELSE [t EXCEPT !.src = @ + 1, !.page = 1]

\* The position after the current page: the next page of the source, or the
\* first page of the next source.
next_pos(t) ==
    IF t.page < t.urls[t.src][2]
    THEN [t EXCEPT !.page = @ + 1]
    ELSE [t EXCEPT !.src = @ + 1, !.page = 1]

\* The top of the page loop at position (src, page): past the last source the
\* task returns; else the URL is formatted and a DetailsScraping built (which
\* is outside the try, so a failure there ends the task with the exception)
\* and get_card_details is awaited.
begin_page(t, ctor_ok) ==
    IF t.src > Len(t.urls) THEN [t EXCEPT !.status = "returned"]
    ELSE IF ctor_ok
         THEN [t EXCEPT !.status = "fetching",
                        !.fetched = Append(@, <<t.src, t.page>>)]
         ELSE [t EXCEPT !.status = "raised"]

finished(t) == t.status \in {"returned", "raised"}

\* A task whose result the orchestrator has taken: only how it ended is kept.
consumed(t) ==
    IF finished(t)
    THEN [new_task(t.name, t.urls) EXCEPT !.status = t.status, !.src = 0]
    ELSE t

\* A slot that is given back only when the task returns.
released_on_return_only(t) == IF t.status = "returned" THEN 1 ELSE 0

\* Leaving "async with semaphore" releases the slot.
released(t) == IF finished(t) THEN 1 ELSE 0

\* An acquire that never gets a slot.
slot_free_never(value) == FALSE

\* An acquire that never waits.
slot_free_always(value) == TRUE

\* Semaphore.acquire returns at once only while the counter is positive.
slot_free(value) == value > 0

\* The first step of a task: yesterday is read from the clock, then the
\* semaphore is acquired if a slot is free (else the task suspends).
TaskStart(i) ==
    /\ i \in 1..Len(tasks)
    /\ tasks[i].status = "created"
    /\ \E now \in now_choices :
         LET t0 == [tasks[i] EXCEPT !.yesterday = FormatDate(now - 1)] IN
         /\ today' = now
         /\ IF slot_free(semaphore)
            THEN \E ctor_ok \in BOOLEAN :
                   LET t1 == begin_page(t0, ctor_ok) IN
                   /\ tasks' = [tasks EXCEPT ![i] = t1]
                   /\ semaphore' = semaphore - 1 + released(t1)
            ELSE /\ tasks' = [tasks EXCEPT ![i] = [t0 EXCEPT !.status = "acquiring"]]
                 /\ semaphore' = semaphore
    /\ UNCHANGED <<self, pc, contractingANDservices_chunks, chunk_index,
                   awaited, pending_uploads, disk, up, clean_idx, drive, hist, pure>>

\* A suspended task gets a slot.
TaskAcquire(i) ==
    /\ i \in 1..Len(tasks)
    /\ tasks[i].status = "acquiring"
    /\ slot_free(semaphore)
    /\ \E ctor_ok \in BOOLEAN :
         LET t1 == begin_page(tasks[i], ctor_ok) IN
         /\ tasks' = [tasks EXCEPT ![i] = t1]
         /\ semaphore' = semaphore - 1 + released(t1)
    /\ UNCHANGED <<today, self, pc, contractingANDservices_chunks, chunk_index,
                   awaited, pending_uploads, disk, up, clean_idx, drive, hist, pure>>

\* get_card_details raised: the except clause logs the URL and continues with
\* the next page (the sleep is inside the try and is skipped).
fetch_failed_step(t, ctor_ok) ==
    LET key == <<t.src, t.page>>
        t1  == [t EXCEPT !.fetch_failed = @ \cup {key}, !.logged = @ \cup {key}]
    IN  begin_page(next_pos(t1), ctor_ok)

\* get_card_details returned cards: they are filtered; if the filter raises,
\* the same except clause logs and continues; else the task sleeps page_delay.
fetch_returned_step(t, dates, ctor_ok) ==
    LET key   == <<t.src, t.page>>
        cards == tag_cards(dates, key)
        r     == filter_cards(cards, t.yesterday, t.card_data)
        t1    == [t EXCEPT !.card_data = r.card_data,
                           !.expected = @ \o matches_of(cards, t.yesterday)]
    IN  IF r.raised
        THEN begin_page(next_pos([t1 EXCEPT !.logged = @ \cup {key}]), ctor_ok)
        ELSE [t1 EXCEPT !.status = "sleeping"]

TaskFetchDone(i) ==
    /\ i \in 1..Len(tasks)
    /\ tasks[i].status = "fetching"
    /\ \E ctor_ok \in BOOLEAN :
         \/ LET t1 == fetch_failed_step(tasks[i], ctor_ok) IN
            /\ tasks' = [tasks EXCEPT ![i] = t1]
            /\ semaphore' = semaphore + released(t1)
         \/ \E dates \in PageChoices :
              LET t1 == fetch_returned_step(tasks[i], dates, ctor_ok) IN
              /\ tasks' = [tasks EXCEPT ![i] = t1]
              /\ semaphore' = semaphore + released(t1)
    /\ UNCHANGED <<today, self, pc, contractingANDservices_chunks, chunk_index,
                   awaited, pending_uploads, disk, up, clean_idx, drive, hist, pure>>

\* asyncio.sleep(page_delay) is over: on to the next page.
TaskSleepDone(i) ==
    /\ i \in 1..Len(tasks)
    /\ tasks[i].status = "sleeping"
    /\ \E ctor_ok \in BOOLEAN :
         LET t1 == begin_page(next_pos(tasks[i]), ctor_ok) IN
         /\ tasks' = [tasks EXCEPT ![i] = t1]
         /\ semaphore' = semaphore + released(t1)
    /\ UNCHANGED <<today, self, pc, contractingANDservices_chunks, chunk_index,
                   awaited, pending_uploads, disk, up, clean_idx, drive, hist, pure>>


\* ------------------------------------------------------------ orchestrator
\* Nothing has been done yet: per category of the current chunk how its task
\* ended, the calls made for the chunk's files, and the run's store calls.
no_history(n) ==
    [outcome |-> [i \in 1..n |-> "none"], excel_calls |-> {}, write_failed |-> {},
     created |-> {}, pended |-> {}, upload_inputs |-> {}, uploaded |-> {}, removed |-> {},
     upload_calls |-> 0, get_folder_calls |-> 0, create_folder_calls |-> 0,
     setup |-> "none", chunk_upload_calls |-> 0, chunk_delays |-> 0]

\* The next chunk starts after one more inter-chunk delay: what is kept of
\* the chunk before is the run's count of store calls and how the setup
\* block ended.
next_chunk_history(h) ==
    [no_history(Len(h.outcome)) EXCEPT
        !.upload_calls = h.upload_calls,
        !.get_folder_calls = h.get_folder_calls,
        !.create_folder_calls = h.create_folder_calls,
        !.setup = h.setup,
        !.chunk_delays = h.chunk_delays + 1]

\* The state of the locals of upload_files_with_retry before any call.
no_upload ==
    [outcome |-> "none", yesterday |-> <<>>, folder_id |-> 0, file_idx |-> 0,
     attempt |-> 0, uploaded_files |-> <<>>, attempts |-> <<>>, reauths |-> <<>>,
     used_folders |-> {}, get_calls |-> 0, create_calls |-> 0,
     passed_over |-> {}, logged |-> {}]

\* The chunk loop enters chunk k: the first task is created and the loop
\* suspends in asyncio.sleep(2).
first_task(chunks, k) == <<new_task(chunks[k][1][1], chunks[k][1][2])>>

\* A chunk loop that ends after its first pass.
after_chunk_stop(k, chunks) == "done"

\* A chunk loop that sleeps chunk_delay after every chunk.
after_chunk_delay_always(k, chunks) == "chunk_delay"

\* After the cleanup (or with nothing pending): the inter-chunk delay, or the
\* end of the run after the last chunk.
after_chunk(k, chunks) == IF k < Len(chunks) THEN "chunk_delay" ELSE "done"

\* The setup block that goes on although authenticate raised.
setup_ok_without_auth(outcome) == outcome \in {"ok", "auth_error"}

\* The setup block reaches its end only if the environment variable is set,
\* json.loads parses it and authenticate returns.
setup_ok(outcome) == outcome = "ok"

\* The setup block: any failure is logged and the function returns; otherwise
\* the session is authenticated, the map is partitioned, the semaphore is
\* made, and the loop enters the first chunk (if there is one).
Setup ==
    /\ pc = "setup"
    /\ \E outcome \in SetupOutcomes :
         /\ hist' = [hist EXCEPT !.setup = outcome]
         /\ IF ~setup_ok(outcome)
            THEN /\ pc' = "setup_failed"
                 /\ UNCHANGED <<contractingANDservices_chunks, chunk_index, tasks,
                                semaphore, drive>>
            ELSE LET chunks == make_chunks(self.contractingANDservices_data,
                                           self.chunk_size) IN
                 /\ drive' = [drive EXCEPT !.service = TRUE]
                 /\ contractingANDservices_chunks' = chunks
                 /\ semaphore' = self.max_concurrent_links
                 /\ IF chunks = <<>>
                    THEN /\ pc' = "done"
                         /\ UNCHANGED <<chunk_index, tasks>>
                    ELSE /\ pc' = "launch_sleep"
                         /\ chunk_index' = 1
                         /\ tasks' = first_task(chunks, 1)
    /\ UNCHANGED <<today, self, awaited, pending_uploads, disk, up, clean_idx,
                   pure>>

\* asyncio.sleep(2) after a create_task is over: the next task of the chunk is
\* created, or, after the last one, the second loop starts with no pending
\* uploads. The task created before the sleep has taken its first step by then.
LaunchSleepDone ==
    /\ pc = "launch_sleep"
    /\ tasks[Len(tasks)].status # "created"
    /\ LET chunk == contractingANDservices_chunks[chunk_index] IN
       IF Len(tasks) < Len(chunk)
       THEN /\ tasks' = Append(tasks, new_task(chunk[Len(tasks) + 1][1],
                                               chunk[Len(tasks) + 1][2]))
            /\ UNCHANGED <<pc, awaited, pending_uploads>>
       ELSE /\ pc' = "await"
            /\ awaited' = 0
            /\ pending_uploads' = <<>>
            /\ UNCHANGED tasks
    /\ UNCHANGED <<today, self, contractingANDservices_chunks, chunk_index,
                   semaphore, disk, up, clean_idx, drive, hist, pure>>

\* save_to_excel returning the path although the write failed.
save_to_excel_path_on_error(name, card_data, write_ok) ==
    IF card_data = <<>> THEN [path |-> None, written |-> FALSE]
    ELSE [path |-> excel_path(name), written |-> write_ok]

\* save_to_excel: nothing for no data; else the file is written and its path
\* returned, or the write fails, which is logged, and None is returned.
save_to_excel(name, card_data, write_ok) ==
    IF card_data = <<>> THEN [path |-> None, written |-> FALSE]
    ELSE IF write_ok THEN [path |-> excel_path(name), written |-> TRUE]
    ELSE [path |-> None, written |-> FALSE]

\* The test left out: every result is handed to save_to_excel.
has_data_always(card_data) == TRUE

\* The orchestrator's test of a task's result before it writes a file.
has_data(card_data) == card_data # <<>>

\* An await that returns whether or not the task is done.
await_returns_at_once(t) == TRUE

\* "await task" gives control back only when the task is done.
await_returns(t) == finished(t)

\* A second loop that a raising task ends.
more_to_await_until_raise(n, ts) == n < Len(ts) /\ ts[n].status # "raised"

\* A second loop that awaits the first task only.
more_to_await_first_only(n, ts) == FALSE

\* The second loop has tasks left after the n it has awaited.
more_to_await(n, ts) == n < Len(ts)

\* An upload step that is run for every chunk.
has_pending_always(pend) == TRUE

\* "if pending_uploads:" after the second loop.
has_pending(pend) == pend # <<>>

\* "await task" of the second loop returns or raises: a raise is logged; data
\* is written to Excel and, if a path came back, appended to pending_uploads.
\* After the last task the upload step follows if anything is pending.
AwaitTask ==
    /\ pc = "await"
    /\ awaited < Len(tasks)
    /\ LET t == tasks[awaited + 1] IN
       /\ await_returns(t)
       /\ \E write_ok \in BOOLEAN :
            LET call == t.status = "returned" /\ has_data(t.card_data)
                r    == save_to_excel(t.name, t.card_data, write_ok)
                got  == call /\ r.path # None
                pend == IF got THEN Append(pending_uploads, r.path)
                        ELSE pending_uploads
            IN
            /\ pending_uploads' = pend
            /\ disk' = IF call /\ r.written THEN disk \cup {excel_path(t.name)} ELSE disk
            /\ hist' = [hist EXCEPT
                 !.outcome[t.name] = IF t.status = "raised" THEN "raised"
                                     ELSE IF t.card_data = <<>> THEN "empty"
                                     ELSE "data",
                 !.excel_calls = IF call THEN @ \cup {t.name} ELSE @,
                 !.write_failed = IF call /\ t.card_data # <<>> /\ ~write_ok
                                  THEN @ \cup {t.name} ELSE @,
                 !.created = IF call /\ r.written THEN @ \cup {excel_path(t.name)}
                             ELSE @,
                 !.pended = IF got THEN @ \cup {r.path} ELSE @]
            /\ awaited' = awaited + 1
            /\ tasks' = [tasks EXCEPT ![awaited + 1] = consumed(t)]
            /\ pc' = IF more_to_await(awaited + 1, tasks) THEN "await"
                     ELSE IF has_pending(pend) THEN "upload_call"
                     ELSE after_chunk(chunk_index, contractingANDservices_chunks)
    /\ UNCHANGED <<today, self, contractingANDservices_chunks, chunk_index,
                   semaphore, up, clean_idx, drive, pure>>


\* ------------------------------------------------- upload_files_with_retry
\* Ids of the store's folders named name (a folder's id is its position).
folders_named(name) == {id \in 1..Len(drive.folders) : drive.folders[id] = name}

\* The loop over the files moves on to the next file, or the function returns.
next_file(u, files) ==
    IF u.file_idx < Len(files)
    THEN [u EXCEPT !.file_idx = @ + 1, !.attempt = 0]
    ELSE [u EXCEPT !.outcome = "returned"]

upload_pc(u) == IF u.outcome = "running" THEN "upload_attempt" ELSE "cleanup"

\* The lookup made inside the loop over the files.
folder_lookups_per_file(files) == Len(files)

\* get_folder_id is called once per call, before the loop over the files.
folder_lookups(files) == 1

\* A call that goes on to the files although create_folder raised.
folder_error_ignored(u) == [u EXCEPT !.create_calls = 1]

\* create_folder raised: the outer except clause logs it and the function
\* returns what it has uploaded, which is nothing.
folder_failed(u) == [u EXCEPT !.outcome = "folder_error", !.create_calls = 1]

\* The call starts: yesterday is read from the clock and the folder resolved:
\* get_folder_id returns the id of a folder of that name, or None when there
\* is none or the lookup failed; on None create_folder makes a new folder or
\* raises, which the outer except logs before the empty list is returned.
UploadCall ==
    /\ pc = "upload_call"
    /\ \E now \in now_choices :
         LET name == FormatDate(now - 1)
             u0   == [no_upload EXCEPT
                        !.outcome = "running", !.yesterday = name,
                        !.file_idx = 1, !.get_calls = folder_lookups(pending_uploads),
                        !.attempts = [k \in 1..Len(pending_uploads) |-> 0],
                        !.reauths = [k \in 1..Len(pending_uploads) |-> 0]]
             h0   == [hist EXCEPT
                        !.upload_calls = @ + 1,
                        !.chunk_upload_calls = @ + 1,
                        !.get_folder_calls = @ + folder_lookups(pending_uploads),
                        !.upload_inputs = @ \cup
                            {pending_uploads[k] : k \in 1..Len(pending_uploads)}]
         IN
         /\ today' = now
         /\ \/ \E id \in folders_named(name) :
                 /\ up' = [u0 EXCEPT !.folder_id = id]
                 /\ hist' = h0
                 /\ pc' = "upload_attempt"
                 /\ UNCHANGED drive
            \/ /\ up' = [u0 EXCEPT !.folder_id = Len(drive.folders) + 1,
                                   !.create_calls = 1]
               /\ hist' = [h0 EXCEPT !.create_folder_calls = @ + 1]
               /\ drive' = [drive EXCEPT !.folders = Append(@, name)]
               /\ pc' = "upload_attempt"
            \/ /\ up' = folder_failed(u0)
               /\ hist' = [h0 EXCEPT !.create_folder_calls = @ + 1]
               /\ pc' = upload_pc(up')
               /\ UNCHANGED drive
    /\ clean_idx' = 1
    /\ UNCHANGED <<self, contractingANDservices_chunks, chunk_index, tasks,
                   awaited, semaphore, pending_uploads, disk, pure>>

\* What follows a failed upload_file call: a backoff sleep and then a
\* re-authentication if attempts remain, else the file is given up.
retry_left(attempt) == attempt < upload_retries - 1

\* upload_file returned, and the retry loop goes on to a further attempt.
upload_succeeded_no_break(u, file, files) ==
    LET u1 == [u EXCEPT !.uploaded_files = Append(@, file)] IN
    IF u.attempt < upload_retries - 1 THEN [u1 EXCEPT !.attempt = @ + 1]
    ELSE next_file(u1, files)

\* upload_file returned: the path is appended to uploaded_files and break
\* leaves the retry loop for the next file.
upload_succeeded(u, file, files) ==
    next_file([u EXCEPT !.uploaded_files = Append(@, file)], files)

\* One pass of the retry loop for the current file: a file that is not there
\* is passed over without a call and without a log line; else upload_file
\* succeeds or raises, and either is logged with the file's name.
UploadAttempt ==
    /\ pc = "upload_attempt"
    /\ LET file == pending_uploads[up.file_idx] IN
       IF file \notin disk
       THEN /\ LET u1 == [up EXCEPT !.passed_over = @ \cup {up.file_idx}] IN
               up' = IF up.attempt < upload_retries - 1
                     THEN [u1 EXCEPT !.attempt = @ + 1]
                     ELSE next_file(u1, pending_uploads)
            /\ pc' = upload_pc(up')
            /\ UNCHANGED <<drive, hist>>
       ELSE LET u1 == [up EXCEPT !.attempts[up.file_idx] = @ + 1,
                                 !.used_folders = @ \cup {up.folder_id},
                                 !.logged = @ \cup {up.file_idx}] IN
            \/ /\ up' = upload_succeeded(u1, file, pending_uploads)
               /\ hist' = [hist EXCEPT !.uploaded = @ \cup {file}]
               /\ UNCHANGED drive
               /\ pc' = upload_pc(up')
            \/ /\ UNCHANGED <<drive, hist>>
               /\ IF retry_left(up.attempt)
                  THEN /\ up' = u1
                       /\ pc' = "upload_backoff"
                  ELSE /\ up' = next_file(u1, pending_uploads)
                       /\ pc' = upload_pc(up')
    /\ UNCHANGED <<today, self, contractingANDservices_chunks, chunk_index, tasks,
                   awaited, semaphore, pending_uploads, disk, clean_idx, pure>>

\* asyncio.sleep(upload_retry_delay) is over and authenticate is called inside
\* the except clause: it returns and the next attempt follows, or it raises,
\* which leaves both loops for the outer except, and the function returns.
UploadBackoffDone ==
    /\ pc = "upload_backoff"
    /\ LET u1 == [up EXCEPT !.reauths[up.file_idx] = @ + 1] IN
       \/ /\ up' = [u1 EXCEPT !.attempt = @ + 1]
          /\ pc' = "upload_attempt"
       \/ /\ up' = [u1 EXCEPT !.outcome = "auth_error"]
          /\ pc' = "cleanup"
    /\ UNCHANGED <<today, self, contractingANDservices_chunks, chunk_index, tasks,
                   awaited, semaphore, pending_uploads, disk, clean_idx, drive,
                   hist, pure>>

\* ------------------------------------------------------------------ cleanup
\* The files the cleanup loop removes: the return value of
\* upload_files_with_retry is dropped and the loop runs over pending_uploads.
files_to_remove(pending, uploaded_files) == pending

\* One pass of the cleanup loop: os.remove deletes the file or raises, which
\* is logged. After the last file the chunk is over (and the finished upload
\* call's locals are gone).
CleanupFile ==
    /\ pc = "cleanup"
    /\ LET files == files_to_remove(pending_uploads, up.uploaded_files) IN
       IF clean_idx > Len(files)
       THEN /\ pc' = after_chunk(chunk_index, contractingANDservices_chunks)
            /\ up' = no_upload
            /\ clean_idx' = 1
            /\ UNCHANGED <<disk, hist>>
       ELSE /\ clean_idx' = IF clean_idx < Len(files) THEN clean_idx + 1 ELSE 1
            /\ up' = IF clean_idx < Len(files) THEN up ELSE no_upload
            /\ pc' = IF clean_idx < Len(files) THEN "cleanup"
                     ELSE after_chunk(chunk_index, contractingANDservices_chunks)
            /\ \/ /\ files[clean_idx] \in disk
                  /\ disk' = disk \ {files[clean_idx]}
                  /\ hist' = [hist EXCEPT !.removed = @ \cup {files[clean_idx]}]
               \/ UNCHANGED <<disk, hist>>
    /\ UNCHANGED <<today, self, contractingANDservices_chunks, chunk_index, tasks,
                   awaited, semaphore, pending_uploads, drive, pure>>

\* asyncio.sleep(chunk_delay) is over: the loop enters the next chunk.
ChunkDelayDone ==
    /\ pc = "chunk_delay"
    /\ pc' = "launch_sleep"
    /\ chunk_index' = chunk_index + 1
    /\ tasks' = first_task(contractingANDservices_chunks, chunk_index + 1)
    /\ hist' = next_chunk_history(hist)
    /\ UNCHANGED <<today, self, contractingANDservices_chunks, awaited, semaphore,
                   pending_uploads, disk, up, clean_idx, drive, pure>>

\* ------------------------------------------------------- the specification
\* The scraper after __init__ with a category map of n entries, before
\* scrape_all_contractingANDservices runs. max_concurrent_links is a plain
\* field: the shipped value and the smaller one, under which a task of a
\* chunk has to wait for a slot, are both tried.
constructed(n, links) ==
    /\ today = 1
    /\ self = [contractingANDservices_data |-> category_map(n),
               chunk_size |-> DefaultChunkSize,
               max_concurrent_links |-> links]
    /\ pc = "setup"
    /\ contractingANDservices_chunks = <<>>
    /\ chunk_index = 0
    /\ tasks = <<>>
    /\ awaited = 0
    /\ semaphore = 0
    /\ pending_uploads = <<>>
    /\ disk = {}
    /\ up = no_upload
    /\ clean_idx = 1
    /\ drive = [service |-> FALSE, folders |-> <<>>]
    /\ hist = no_history(n)

Init ==
    /\ \E n \in 0..MaxCategories, links \in 1..DefaultMaxConcurrentLinks :
         constructed(n, links)
    /\ pure = [op |-> "none"]

Next ==
    \/ Setup
    \/ LaunchSleepDone
    \/ \E i \in 1..Len(tasks) : TaskStart(i)
    \/ \E i \in 1..Len(tasks) : TaskAcquire(i)
    \/ \E i \in 1..Len(tasks) : TaskFetchDone(i)
    \/ \E i \in 1..Len(tasks) : TaskSleepDone(i)
    \/ AwaitTask
    \/ UploadCall
    \/ UploadAttempt
    \/ UploadBackoffDone
    \/ CleanupFile
    \/ ChunkDelayDone

Spec == Init /\ [][Next]_vars

\* The run in which every awaited operation (page fetch, sleep, store call)
\* returns or raises: a step that can be taken is taken in the end.
SpecFair == Init /\ [][Next]_vars /\ WF_vars(Next)

\* "await scraper.get_card_details()" of a task never returns: the task stays
\* suspended inside "async with semaphore", holding its slot.
TaskFetchHangs(i) ==
    /\ i \in 1..Len(tasks)
    /\ tasks[i].status = "fetching"
    /\ tasks' = [tasks EXCEPT ![i].status = "hung"]
    /\ UNCHANGED <<today, self, pc, contractingANDservices_chunks, chunk_index,
                   awaited, semaphore, pending_uploads, disk, up, clean_idx, drive,
                   hist, pure>>

NextHang ==
    \/ Next
    \/ \E i \in 1..Len(tasks) : TaskFetchHangs(i)

\* The run in which a page fetch may hang, and every other awaited operation
\* returns or raises.
SpecHang == Init /\ [][NextHang]_vars /\ WF_vars(Next)


\* ------------------------------------------- the functions tried on their own
\* Every str-or-None value of at most MaxStrLen characters.
AllDates == {None} \cup SeqsUpTo(Chars, MaxStrLen)

\* The cards of one page, each told apart by its position.
numbered_cards(dates) ==
    [k \in 1..Len(dates) |-> [date_published |-> dates[k], page |-> <<0, k>>]]

InitFilter ==
    /\ constructed(0, DefaultMaxConcurrentLinks)
    /\ \E dates \in SeqsUpTo(AllDates, MaxCards), d \in 0..1 :
         pure = [op |-> "filter", state |-> "input", cards |-> numbered_cards(dates),
                 yesterday |-> FormatDate(d), card_data |-> <<>>, raised |-> FALSE]

\* The filter loop runs over the page.
ApplyFilter ==
    /\ pure.op = "filter"
    /\ pure.state = "input"
    /\ LET r == filter_cards(pure.cards, pure.yesterday, <<>>) IN
       pure' = [pure EXCEPT !.state = "done", !.card_data = r.card_data,
                            !.raised = r.raised]
    /\ UNCHANGED mainVars

NextFilter == ApplyFilter

SpecFilter == InitFilter /\ [][NextFilter]_vars

InitChunks ==
    /\ constructed(0, DefaultMaxConcurrentLinks)
    /\ \E n \in 0..MaxItems, size \in 1..MaxChunk :
         pure = [op |-> "chunks", state |-> "input", items |-> category_map(n),
                 size |-> size, chunks |-> <<>>]

\* The partition is computed.
ApplyChunks ==
    /\ pure.op = "chunks"
    /\ pure.state = "input"
    /\ pure' = [pure EXCEPT !.state = "done",
                            !.chunks = make_chunks(pure.items, pure.size)]
    /\ UNCHANGED mainVars

NextChunks == ApplyChunks

SpecChunks == InitChunks /\ [][NextChunks]_vars

\* upload_files_with_retry called on its own: a batch of distinct paths, any
\* of which may be missing locally, and a store that has the date folder of
\* day 0 or has none.
InitUpload ==
    /\ today = 1
    /\ self = [contractingANDservices_data |-> category_map(0),
               chunk_size |-> DefaultChunkSize,
               max_concurrent_links |-> DefaultMaxConcurrentLinks]
    /\ pc = "upload_call"
    /\ contractingANDservices_chunks = <<>>
    /\ chunk_index = 0
    /\ tasks = <<>>
    /\ awaited = 0
    /\ semaphore = DefaultMaxConcurrentLinks
    /\ \E files \in SeqsUpTo({excel_path(i) : i \in 1..MaxFiles}, MaxFiles) :
         /\ files # <<>>
         /\ \A a, b \in 1..Len(files) : a # b => files[a] # files[b]
         /\ pending_uploads = files
    /\ disk \in SUBSET {excel_path(i) : i \in 1..MaxFiles}
    /\ up = no_upload
    /\ clean_idx = 1
    /\ drive \in {[service |-> TRUE, folders |-> f] : f \in {<<>>, <<FormatDate(0)>>}}
    /\ hist = [no_history(0) EXCEPT !.setup = "ok"]
    /\ pure = [op |-> "upload"]

NextUpload == UploadCall \/ UploadAttempt \/ UploadBackoffDone

SpecUpload == InitUpload /\ [][NextUpload]_vars

\* -------------------------------------------------------- MedicalServices
\* stop_after_attempt(3) of the retry decorator of upload_file.
stop_after_attempt == 3

\* The brand elements of the page, in document order, as (title, href): the
\* second has no href.
brand_elements(n) ==
    [k \in 1..n |-> IF k = 1 THEN <<"a", TRUE>>
                    ELSE IF k = 2 THEN <<"b", FALSE>>
                    ELSE <<"c", TRUE>>]

\* An optional argument: <<>> when it is not supplied, else <<value>>.
\* "specific_pages if specific_pages else num_pages" of __init__: None and 0
\* are falsy.
init_specific_pages(arg, num_pages) ==
    IF arg # <<>> /\ arg[1] # 0 THEN arg[1] ELSE num_pages

\* A page limit that ignores specific_brands.
pages_to_scrape_default(m, title) == m.num_pages

\* "self.specific_pages if title in self.specific_brands else self.num_pages"
pages_to_scrape(m, title) ==
    IF title \in m.specific_brands THEN m.specific_pages ELSE m.num_pages

\* MedicalServices after __init__, before process_medical_services.
medical_constructed(n, num_pages, arg, brands) ==
    [op |-> "medical", pc |-> "start",
     elements |-> brand_elements(n), num_pages |-> num_pages,
     specific_pages |-> init_specific_pages(arg, num_pages),
     supplied |-> arg, specific_brands |-> brands,
     brand |-> 1, page_num |-> 1, data |-> <<>>, any_yesterday |-> FALSE,
     fetched |-> <<>>, failed |-> {}, excel_file |-> None, on_disk |-> FALSE,
     attempts |-> 0, uploaded |-> FALSE, removed |-> FALSE]

\* The brand's record is appended to self.data and the loop takes the next
\* element.
brand_done(m) ==
    [m EXCEPT !.data = Append(@, m.elements[m.brand][1]),
              !.brand = @ + 1, !.page_num = 1]

\* The two loops of scrape_brands_and_types run up to the next page fetch:
\* an element without href is passed over; a brand whose page range is used
\* up is recorded; after the last element the data is returned.
RECURSIVE next_fetch(_)
next_fetch(m) ==
    IF m.brand > Len(m.elements) THEN [m EXCEPT !.pc = "save"]
    ELSE IF ~m.elements[m.brand][2] THEN next_fetch([m EXCEPT !.brand = @ + 1])
    ELSE IF m.page_num > pages_to_scrape(m, m.elements[m.brand][1])
         THEN next_fetch(brand_done(m))
         ELSE [m EXCEPT !.pc = "scrape"]

\* authenticate and the folder resolution of process_medical_services: any
\* of them may raise, which the except clause logs and re-raises; else the
\* browser opens the page (no brand element: the empty data is returned).
MedicalStart ==
    /\ pure.op = "medical"
    /\ pure.pc = "start"
    /\ \/ pure' = [pure EXCEPT !.pc = "raised"]
       \/ pure' = next_fetch(pure)
    /\ UNCHANGED mainVars

\* One pass of the page loop: get_card_details returns cards (of yesterday
\* or older), returns nothing, or raises.
MedicalFetchPage ==
    /\ pure.op = "medical"
    /\ pure.pc = "scrape"
    /\ LET key == <<pure.brand, pure.page_num>>
           m0  == [pure EXCEPT !.fetched = Append(@, key)]
       IN  \/ \E yesterday_cars \in BOOLEAN :
                pure' = next_fetch([m0 EXCEPT !.page_num = @ + 1,
                                              !.any_yesterday = @ \/ yesterday_cars])
           \/ pure' = next_fetch(brand_done(m0))
           \/ pure' = next_fetch(brand_done([m0 EXCEPT !.failed = @ \cup {key}]))
    /\ UNCHANGED mainVars

\* "if brand_data:" and save_to_excel: no brand record, no sheet of
\* yesterday's cards, or a failing write give no file and the run returns;
\* else the workbook is on disk and its path returned.
MedicalSave ==
    /\ pure.op = "medical"
    /\ pure.pc = "save"
    /\ IF pure.data = <<>> \/ ~pure.any_yesterday
       THEN pure' = [pure EXCEPT !.pc = "returned"]
       ELSE \/ pure' = [pure EXCEPT !.pc = "returned"]
            \/ pure' = [pure EXCEPT !.pc = "upload", !.on_disk = TRUE,
                                     !.excel_file = excel_path("m")]
    /\ UNCHANGED mainVars

\* What follows an upload_file call that always lets the cleanup run.
after_upload_remove_always(result) == "remove"

\* What follows the upload_file call in process_medical_services: os.remove
\* after a return, the except clause after a raise.
after_upload(result) == IF result = "ok" THEN "remove" ELSE "raised"

\* One attempt of the retried upload_file: it returns; or raises a network
\* error, which is retried while attempts remain and raised after the last;
\* or raises another error, which is raised at once.
MedicalUpload ==
    /\ pure.op = "medical"
    /\ pure.pc = "upload"
    /\ LET m0 == [pure EXCEPT !.attempts = @ + 1] IN
       \/ pure' = [m0 EXCEPT !.uploaded = TRUE, !.pc = after_upload("ok")]
       \/ pure' = IF m0.attempts < stop_after_attempt THEN m0
                  ELSE [m0 EXCEPT !.pc = after_upload("RetryError")]
       \/ pure' = [m0 EXCEPT !.pc = after_upload("error")]
    /\ UNCHANGED mainVars

\* os.remove(excel_file): the file is deleted, or the call raises, which the
\* except clause re-raises.
MedicalRemove ==
    /\ pure.op = "medical"
    /\ pure.pc = "remove"
    /\ \/ pure' = [pure EXCEPT !.on_disk = FALSE, !.removed = TRUE, !.pc = "returned"]
       \/ pure' = [pure EXCEPT !.pc = "raised"]
    /\ UNCHANGED mainVars

InitMedical ==
    /\ constructed(0, DefaultMaxConcurrentLinks)
    /\ \E n \in 0..MaxBrands, num_pages \in 1..MaxPageCount,
          arg \in {<<>>} \cup {<<k>> : k \in 0..MaxPageCount},
          brands \in {{}, {"a"}} :
         pure = medical_constructed(n, num_pages, arg, brands)

NextMedical ==
    \/ MedicalStart
    \/ MedicalFetchPage
    \/ MedicalSave
    \/ MedicalUpload
    \/ MedicalRemove

SpecMedical == InitMedical /\ [][NextMedical]_vars

\* --------------------------------------------------------- save_files
\* SavingOnDriveContracting.save_files about to run on a list of files.
save_files_called(files) ==
    [op |-> "save_files", pc |-> "resolve", files |-> files,
     yesterday |-> <<>>, folder_id |-> 0, file_idx |-> 1, uploaded |-> <<>>,
     get_calls |-> 0, create_calls |-> 0, upload_calls |-> 0]

\* The loop over the files once the folder is known: the next upload, or the
\* final message and the return.
save_files_loop(m) ==
    IF m.file_idx <= Len(m.files) THEN [m EXCEPT !.pc = "upload"]
    ELSE [m EXCEPT !.pc = "returned"]

\* A failing call that is passed over: the loop goes on with the next file.
save_files_error_swallowed(m) ==
    save_files_loop([m EXCEPT !.file_idx = @ + 1])

\* create_folder or upload_file raised: the except clause prints the error
\* and re-raises it out of save_files.
save_files_error(m) == [m EXCEPT !.pc = "raised"]

\* The head of save_files: yesterday is read from the clock; get_folder_id
\* returns the id of a folder of that name, or None when there is none or
\* the lookup failed; on None create_folder makes a new folder or raises.
SaveFilesResolve ==
    /\ pure.op = "save_files"
    /\ pure.pc = "resolve"
    /\ \E now \in now_choices :
         LET name == FormatDate(now - 1)
             m0   == [pure EXCEPT !.yesterday = name, !.get_calls = @ + 1]
         IN
         /\ today' = now
         /\ \/ \E id \in folders_named(name) :
                 /\ pure' = save_files_loop([m0 EXCEPT !.folder_id = id])
                 /\ UNCHANGED drive
            \/ /\ pure' = save_files_loop(
                              [m0 EXCEPT !.folder_id = Len(drive.folders) + 1,
                                         !.create_calls = @ + 1])
               /\ drive' = [drive EXCEPT !.folders = Append(@, name)]
            \/ /\ pure' = save_files_error([m0 EXCEPT !.create_calls = @ + 1])
               /\ UNCHANGED drive
    /\ UNCHANGED <<self, pc, contractingANDservices_chunks, chunk_index, tasks,
                   awaited, semaphore, pending_uploads, disk, up, clean_idx, hist>>

\* One pass of the loop: upload_file returns, or raises (a missing local
\* file, a store error).
SaveFilesUpload ==
    /\ pure.op = "save_files"
    /\ pure.pc = "upload"
    /\ LET m0 == [pure EXCEPT !.upload_calls = @ + 1] IN
       \/ pure' = save_files_loop(
                     [m0 EXCEPT !.uploaded = Append(@, <<m0.files[m0.file_idx],
                                                         m0.folder_id>>),
                                !.file_idx = @ + 1])
       \/ pure' = save_files_error(m0)
    /\ UNCHANGED mainVars

\* An authenticated store that holds no folder, or one of each date a run
\* may have made, and any list of at most MaxFiles file names.
InitSaveFiles ==
    /\ today = 1
    /\ self = [contractingANDservices_data |-> category_map(0),
               chunk_size |-> DefaultChunkSize,
               max_concurrent_links |-> DefaultMaxConcurrentLinks]
    /\ pc = "setup"
    /\ contractingANDservices_chunks = <<>>
    /\ chunk_index = 0
    /\ tasks = <<>>
    /\ awaited = 0
    /\ semaphore = 0
    /\ pending_uploads = <<>>
    /\ disk = {}
    /\ up = no_upload
    /\ clean_idx = 1
    /\ \E fs \in SeqsUpTo({FormatDate(d) : d \in 0..MaxMidnights}, MaxMidnights + 1) :
         /\ \A a, b \in 1..Len(fs) : a # b => fs[a] # fs[b]
         /\ drive = [service |-> TRUE, folders |-> fs]
    /\ hist = no_history(0)
    /\ \E files \in SeqsUpTo({excel_path(i) : i \in 1..MaxFiles}, MaxFiles) :
         pure = save_files_called(files)

NextSaveFiles ==
    \/ SaveFilesResolve
    \/ SaveFilesUpload

SpecSaveFiles == InitSaveFiles /\ [][NextSaveFiles]_vars

\* ------------------------------------------------- services entry point
\* The names bound in the module services_code_main when main() runs: its
\* imports, its class and the names assigned under the __main__ guard.
module_names ==
    {"asyncio", "pd", "os", "json", "logging", "datetime", "timedelta",
     "Dict", "List", "Tuple", "Path", "DetailsScraping",
     "SavingOnDriveContracting", "ServicesMainScraper",
     "contractingANDservices_data", "contractingANDservices_data_2", "main"}

\* A global name is looked up in the module (no builtin has the name).
name_bound(name) == name \in module_names

\* The rest of main() once scrape_all_contractingANDservices has returned:
\* the name CarScraper is looked up to build the second scraper; an unbound
\* name raises NameError out of main(), else the brand scrape is awaited and
\* main() returns.
ServicesMainSecondScraper ==
    /\ pure.op = "main"
    /\ pure.pc = "scrape_all"
    /\ pc \in {"done", "setup_failed"}
    /\ pure' = IF name_bound("CarScraper")
               THEN [pure EXCEPT !.pc = "returned", !.second_started = TRUE]
               ELSE [pure EXCEPT !.pc = "NameError"]
    /\ UNCHANGED mainVars

\* main() of services_code_main.py has built ServicesMainScraper.
InitServicesMain ==
    /\ \E n \in 0..MaxCategories, links \in 1..DefaultMaxConcurrentLinks :
         constructed(n, links)
    /\ pure = [op |-> "main", pc |-> "scrape_all", second_started |-> FALSE]

NextServicesMain ==
    \/ Next
    \/ ServicesMainSecondScraper

SpecServicesMain == InitServicesMain /\ [][NextServicesMain]_vars

\* ---------------------------------------------------------------- claims
\* The files of the batch handed to the running or finished upload call.
batch == 1..Len(pending_uploads)

\* The upload call has returned to the orchestrator.
upload_returned == pc = "cleanup"

\* The current chunk is over: the loop sleeps before the next, or has ended.
chunk_over == pc \in {"chunk_delay", "done"}

\* C1: a local file is deleted only if its upload succeeded, and every pending
\* file whose upload did not succeed is still on disk when its chunk is over
\* (no later chunk touches it).
C1_DeleteOnlyUploaded ==
    /\ hist.removed \subseteq hist.uploaded
    /\ chunk_over => \A f \in hist.pended \ hist.uploaded : f \in disk

\* C2: when the folder was resolved and every upload_file call of the batch
\* failed, each existing file got exactly upload_retries attempts with
\* upload_retries - 1 authenticate calls, and none is in the returned list.
C2_RetryExhaustion ==
    (upload_returned /\ up.outcome # "folder_error" /\ up.uploaded_files = <<>>)
        => \A k \in batch :
             pending_uploads[k] \in disk =>
                 /\ up.attempts[k] = upload_retries
                 /\ up.reauths[k] = upload_retries - 1

\* C3: when the folder was resolved, every existing file of the batch has
\* received at least one upload attempt by the time the call returns,
\* whatever failed for the files before it.
C3_BatchNotAborted ==
    (upload_returned /\ up.outcome # "folder_error")
        => \A k \in batch : pending_uploads[k] \in disk => up.attempts[k] >= 1

\* The claim's reading of a matching card: non-null, non-empty, and the
\* substring up to the first whitespace character is the target date.
prefix_match(card, y) ==
    Truthy(card.date_published) /\ prefix_is(card.date_published, y)

in_result(card) == \E k \in 1..Len(pure.card_data) : pure.card_data[k] = card

\* A card whose date_published holds whitespace and nothing else.
blank_date(card) ==
    /\ Truthy(card.date_published)
    /\ \A k \in 1..Len(card.date_published) : card.date_published[k] \in Whitespace

\* C4 as claimed: a card is appended iff its date_published is non-null,
\* non-empty and its prefix up to the first whitespace is the target date.
C4_PrefixFilter ==
    pure.state = "done" =>
        \A k \in 1..Len(pure.cards) :
            in_result(pure.cards[k]) <=> prefix_match(pure.cards[k], pure.yesterday)

\* C4 as amended: a card is appended iff its date_published is non-null,
\* non-empty, its first whitespace-delimited token (leading whitespace
\* skipped) is the target date, and no card before it on the page has a
\* whitespace-only date; a whitespace-only date makes the filter raise, which
\* ends the page's loop. The appended cards keep the page's order.
C4_TokenFilter ==
    pure.state = "done" =>
        LET blanks == {k \in 1..Len(pure.cards) : blank_date(pure.cards[k])}
            reach  == {k \in 1..Len(pure.cards) : \A b \in blanks : k < b}
        IN  /\ pure.raised <=> blanks # {}
            /\ \A k \in 1..Len(pure.cards) :
                 in_result(pure.cards[k])
                     <=> (k \in reach /\ is_match(pure.cards[k], pure.yesterday))
            /\ \A a, b \in 1..Len(pure.card_data) :
                 a < b => pure.card_data[a].page[2] < pure.card_data[b].page[2]

\* C4's case: a card with whitespace before the target date was appended.
C4_Witness ==
    /\ pure.state = "done"
    /\ \E k \in 1..Len(pure.cards) :
         /\ in_result(pure.cards[k])
         /\ pure.cards[k].date_published[1] \in Whitespace

\* C5: a card with a missing or malformed date is dropped silently: no page
\* error is logged for a page whose fetch did not fail, and the other cards
\* of the page are kept.
C5_SilentExclusion ==
    \A i \in 1..Len(tasks) :
        /\ tasks[i].logged \subseteq tasks[i].fetch_failed
        /\ tasks[i].card_data = tasks[i].expected

\* Every page of every source, in the order of the two loops.
RECURSIVE all_pages(_, _)
all_pages(urls, s) ==
    IF s > Len(urls) THEN <<>>
    ELSE [p \in 1..urls[s][2] |-> <<s, p>>] \o all_pages(urls, s + 1)

\* C6: a task that returns has fetched every page of every source once, in
\* order, and returns the matches of exactly the pages whose fetch did not
\* fail, in fetch order.
C6_ConcatOfGoodPages ==
    \A i \in 1..Len(tasks) :
        tasks[i].status = "returned" =>
            /\ tasks[i].fetched = all_pages(tasks[i].urls, 1)
            /\ tasks[i].card_data = tasks[i].expected

\* C7: a category whose filtered result is empty never has save_to_excel
\* called, never gets a pending upload, and never reaches the upload call.
C7_EmptyNeverWritten ==
    \A name \in DOMAIN hist.outcome :
        hist.outcome[name] = "empty" =>
            /\ name \notin hist.excel_calls
            /\ excel_path(name) \notin hist.created
            /\ excel_path(name) \notin hist.pended
            /\ excel_path(name) \notin hist.upload_inputs

\* C7's case: of the two categories of a chunk one came back empty and the
\* other was written and handed to the upload call.
C7_Witness ==
    \E a, b \in DOMAIN hist.outcome :
        /\ hist.outcome[a] = "empty"
        /\ hist.outcome[b] = "data"
        /\ excel_path(b) \in hist.upload_inputs

\* C8 as claimed: a processed category has a file created and pending iff its
\* filtered record set is non-empty.
C8_FileIffNonEmpty ==
    \A name \in DOMAIN hist.outcome :
        hist.outcome[name] # "none" =>
            /\ excel_path(name) \in hist.created <=> hist.outcome[name] = "data"
            /\ excel_path(name) \in hist.pended <=> hist.outcome[name] = "data"

\* C8 as amended: a processed category has a file created, and that file
\* pending, iff its filtered record set is non-empty and the Excel write
\* succeeded; a failed write leaves neither a file nor a pending upload.
C8_FileIffWritten ==
    \A name \in DOMAIN hist.outcome :
        /\ excel_path(name) \in hist.created <=> excel_path(name) \in hist.pended
        /\ hist.outcome[name] = "none" => excel_path(name) \notin hist.pended
        /\ hist.outcome[name] # "none" =>
             (excel_path(name) \in hist.pended
                 <=> (hist.outcome[name] = "data" /\ name \notin hist.write_failed))

\* C8's case: one category with data whose write failed, one whose write
\* succeeded.
C8_Witness ==
    \E a, b \in DOMAIN hist.outcome :
        /\ hist.outcome[a] = "data" /\ a \in hist.write_failed
        /\ hist.outcome[b] = "data" /\ excel_path(b) \in hist.pended

RECURSIVE concat_all(_)
concat_all(ss) == IF ss = <<>> THEN <<>> ELSE Head(ss) \o concat_all(Tail(ss))

\* C9: N items and chunk size C give ceil(N/C) chunks, each non-empty and of
\* at most C items, whose concatenation is the item list in order, so that
\* every category is in exactly one chunk.
C9_Partition ==
    pure.state = "done" =>
        LET n == Len(pure.items)
            c == pure.size
        IN  /\ Len(pure.chunks) = (n + c - 1) \div c
            /\ \A k \in 1..Len(pure.chunks) :
                 Len(pure.chunks[k]) >= 1 /\ Len(pure.chunks[k]) <= c
            /\ concat_all(pure.chunks) = pure.items
            /\ \A i \in 1..n :
                 Cardinality({k \in 1..Len(pure.chunks) :
                    \E j \in 1..Len(pure.chunks[k]) :
                        pure.chunks[k][j][1] = pure.items[i][1]}) = 1

\* C9's case: several chunks, the last one shorter than the chunk size.
C9_Witness ==
    /\ pure.state = "done"
    /\ Len(pure.chunks) >= 3
    /\ Len(pure.chunks[Len(pure.chunks)]) < pure.size

\* C10 as claimed: the folder is looked up, and created, at most once in a
\* whole run.
C10_ResolveOncePerRun ==
    /\ hist.get_folder_calls <= 1
    /\ hist.create_folder_calls <= 1

\* C10 as amended: the folder is resolved once per upload call, which is at
\* most once per chunk (one lookup, at most one create, never per file), and
\* every upload of the call uses the handle that call resolved.
C10_ResolveOncePerCall ==
    /\ up.get_calls <= 1
    /\ up.create_calls <= up.get_calls
    /\ up.used_folders \subseteq {up.folder_id}
    /\ hist.get_folder_calls = hist.upload_calls
    /\ hist.create_folder_calls <= hist.upload_calls
    /\ hist.upload_calls <= chunk_index

\* C10's case: after a first chunk's call, a second chunk's call has resolved
\* the folder again, with one lookup, and has uploaded its file into it.
C10_Witness ==
    /\ hist.upload_calls = 2
    /\ hist.get_folder_calls = 2
    /\ up.get_calls = 1
    /\ up.used_folders = {up.folder_id}
    /\ Len(up.uploaded_files) = 1

\* The running or returned upload call asked for a new folder and got none.
folder_unresolved == up.create_calls >= 1 /\ up.folder_id = 0

\* C11: when create_folder raises, the folder is not resolved a second time,
\* no upload_file call is made for any file of the batch, the call returns
\* the empty list to the orchestrator, and the orchestrator goes on through
\* its cleanup to the next chunk (or to the end after the last chunk).
C11_FolderErrorAbortsBatch ==
    /\ [](folder_unresolved =>
            /\ up.outcome = "folder_error"
            /\ upload_returned
            /\ up.get_calls = 1
            /\ up.create_calls = 1
            /\ up.uploaded_files = <<>>
            /\ hist.uploaded = {}
            /\ \A k \in batch : up.attempts[k] = 0 /\ up.reauths[k] = 0)
    /\ [][folder_unresolved =>
            /\ hist'.get_folder_calls = hist.get_folder_calls
            /\ hist'.create_folder_calls = hist.create_folder_calls
            /\ hist'.uploaded = hist.uploaded
            /\ pc' \in {"cleanup", after_chunk(chunk_index,
                                                contractingANDservices_chunks)}]_vars

\* C11's case: the only upload call of the run so far asked for a folder and
\* the store has none, and the loop has entered the second chunk.
C11_Witness ==
    /\ chunk_index = 2
    /\ pc = "launch_sleep"
    /\ hist.upload_calls = 1
    /\ hist.create_folder_calls = 1
    /\ drive.folders = <<>>

\* C12: when the setup block fails, the run has returned: no task was
\* created, no file written, no folder or upload operation called.
C12_SetupFailureStopsRun ==
    hist.setup \notin {"none", "ok"} =>
        /\ pc = "setup_failed"
        /\ tasks = <<>>
        /\ chunk_index = 0
        /\ contractingANDservices_chunks = <<>>
        /\ pending_uploads = <<>>
        /\ disk = {}
        /\ up = no_upload
        /\ drive.folders = <<>>
        /\ hist = [no_history(Len(self.contractingANDservices_data))
                      EXCEPT !.setup = hist.setup]

\* C12's case: authenticate raised in the setup of a run that had several
\* categories to scrape.
C12_Witness ==
    /\ hist.setup = "auth_error"
    /\ pc = "setup_failed"
    /\ Len(self.contractingANDservices_data) >= 2

\* The tasks inside "async with semaphore": fetching a page or in the
\* inter-page delay.
inside == {i \in 1..Len(tasks) : tasks[i].status \in {"fetching", "sleeping"}}

\* C13: at most max_concurrent_links tasks are inside the guarded section
\* (the semaphore counts the free slots), also when the chunk holds more
\* tasks than slots, and a task that has no slot has fetched no page.
C13_SemaphoreBound ==
    hist.setup = "ok" =>
        /\ Cardinality(inside) <= self.max_concurrent_links
        /\ semaphore = self.max_concurrent_links - Cardinality(inside)
        /\ \A i \in 1..Len(tasks) :
             tasks[i].status \in {"created", "acquiring"} => tasks[i].fetched = <<>>

\* C13's case: chunk_size exceeds max_concurrent_links, one task of the chunk
\* is fetching and the other waits for the slot.
C13_Witness ==
    /\ self.chunk_size > self.max_concurrent_links
    /\ \E i, j \in 1..Len(tasks) :
         /\ tasks[i].status = "fetching"
         /\ tasks[j].status = "acquiring"

\* The names of the categories of the chunk the loop is in.
current_names ==
    IF chunk_index = 0 THEN {}
    ELSE {contractingANDservices_chunks[chunk_index][j][1] :
            j \in 1..Len(contractingANDservices_chunks[chunk_index])}

\* C14: every task that exists belongs to the chunk the loop is in, and the
\* loop moves to the next chunk (whose first task is only then created) only
\* when every task of the chunk has finished and been awaited and the upload
\* call and the cleanup loop are over.
C14_NoCrossChunkOverlap ==
    /\ [](\A i \in 1..Len(tasks) : tasks[i].name \in current_names)
    /\ [][chunk_index' # chunk_index =>
            /\ pc \in {"setup", "chunk_delay"}
            /\ \A i \in 1..Len(tasks) : finished(tasks[i])
            /\ awaited = Len(tasks)
            /\ up = no_upload
            /\ clean_idx = 1
            /\ \A i \in 1..Len(tasks') : tasks'[i].status = "created"]_vars

\* C14's case: the first chunk has had its upload call and cleanup, and a
\* task of the second chunk is fetching.
C14_Witness ==
    /\ chunk_index = 2
    /\ hist.upload_calls = 1
    /\ tasks[1].status = "fetching"

\* The target dates in use: those of the tasks, that of the upload call, and
\* the names of the folders the run has made.
dates_in_use ==
    {tasks[i].yesterday : i \in {j \in 1..Len(tasks) : tasks[j].yesterday # <<>>}}
    \cup (IF up.yesterday # <<>> THEN {up.yesterday} ELSE {})
    \cup {drive.folders[k] : k \in 1..Len(drive.folders)}

\* C15: every scrape task and every upload call of a run uses the same target
\* date, also when the clock passes midnight during the run.
C15_SingleTargetDate == Cardinality(dates_in_use) <= 1

\* C16: once the setup has succeeded the run never fails: the chunks are
\* entered one after the other, a chunk is left only when each of its
\* categories has been processed, and the run ends after the last chunk.
C16_NoFailurePastSetup ==
    /\ [](hist.setup = "ok" =>
            /\ pc # "setup_failed"
            /\ chunk_index <= Len(contractingANDservices_chunks)
            /\ chunk_over => \A name \in current_names : hist.outcome[name] # "none"
            /\ pc = "done" => chunk_index = Len(contractingANDservices_chunks))
    /\ [][chunk_index' \in {chunk_index, chunk_index + 1}]_vars

\* C16's case: the first chunk's folder resolution failed, a task of the
\* second chunk raised, and the run has ended normally after both chunks.
C16_Witness ==
    /\ pc = "done"
    /\ chunk_index = 2
    /\ hist.create_folder_calls >= 1
    /\ drive.folders = <<>>
    /\ \E name \in current_names : hist.outcome[name] = "raised"

\* C17: a task that is fetching a page does not begin the next fetch in the
\* same step: a page_delay sleep lies between two consecutive fetches.
C17_DelayAfterEveryPage ==
    [][\A i \in 1..Len(tasks) :
          (i <= Len(tasks') /\ tasks[i].status = "fetching")
              => tasks'[i].fetched = tasks[i].fetched]_vars

\* C18: a file of the batch that is not there locally gets no upload_file
\* call and no re-authentication, is not in the list of uploaded files, and
\* its skip is logged.
C18_MissingFileSkipped ==
    \A k \in up.passed_over :
        /\ up.attempts[k] = 0
        /\ up.reauths[k] = 0
        /\ \A j \in 1..Len(up.uploaded_files) : up.uploaded_files[j] # pending_uploads[k]
        /\ k \in up.logged

\* The position of a file in the batch.
index_in(files, f) == CHOOSE k \in 1..Len(files) : files[k] = f

\* C19: the list of uploaded files holds exactly the files for which an
\* upload_file call has returned, each once and in the order of the batch,
\* and a file whose upload_file call has returned gets no further attempt.
C19_SuccessRecordedOnce ==
    /\ []( /\ {up.uploaded_files[j] : j \in 1..Len(up.uploaded_files)} = hist.uploaded
           /\ \A a, b \in 1..Len(up.uploaded_files) :
                a < b => index_in(pending_uploads, up.uploaded_files[a])
                           < index_in(pending_uploads, up.uploaded_files[b]) )
    /\ [][\A k \in batch :
              pending_uploads[k] \in hist.uploaded
                  => up'.attempts[k] = up.attempts[k]]_vars

\* C19's case: the call has returned both files of its batch, the first of
\* them uploaded at its second attempt.
C19_Witness ==
    /\ upload_returned
    /\ Len(up.uploaded_files) = 2
    /\ up.attempts[1] = 2

\* C20: while the upload call or the cleanup runs, every task launched for
\* the chunk has finished and been awaited, and no step that touches the
\* store or the upload call's state is taken while a task is running.
C20_UploadAfterAllAwaited ==
    /\ [](pc \in {"upload_call", "upload_attempt", "upload_backoff", "cleanup"} =>
            /\ Len(tasks) = Len(contractingANDservices_chunks[chunk_index])
            /\ awaited = Len(tasks)
            /\ \A i \in 1..Len(tasks) : finished(tasks[i]))
    /\ [][(hist.setup = "ok" /\ (drive' # drive \/ up' # up))
              => \A i \in 1..Len(tasks) : finished(tasks[i])]_vars

\* C20's case: in a chunk of two tasks one raised and one returned data, and
\* the upload call is running.
C20_Witness ==
    /\ pc = "upload_attempt"
    /\ Len(tasks) = 2
    /\ \E i, j \in 1..Len(tasks) :
         tasks[i].status = "raised" /\ tasks[j].status = "returned"

\* The second loop of the current chunk is over.
past_await == chunk_index > 0 /\ pc \notin {"launch_sleep", "await"}

\* C21 as claimed: when a task of a chunk raised, every sibling that came
\* back with records has its file written and pending for the upload.
C21_SiblingsAlwaysUploaded ==
    \A a, b \in current_names :
        (hist.outcome[a] = "raised" /\ hist.outcome[b] = "data")
            => /\ excel_path(b) \in hist.created
               /\ excel_path(b) \in hist.pended

\* C21 as amended: when a task of a chunk raised, its siblings still run to
\* completion and are awaited; a sibling that came back with records has
\* save_to_excel called, and its file is pending, and in the batch of the
\* chunk's upload call, unless its own Excel write failed.
C21_SiblingsUnaffected ==
    \A a, b \in current_names :
        hist.outcome[a] = "raised" =>
            /\ past_await =>
                 /\ hist.outcome[b] # "none"
                 /\ \A i \in 1..Len(tasks) : finished(tasks[i])
            /\ hist.outcome[b] = "data" =>
                 /\ b \in hist.excel_calls
                 /\ excel_path(b) \in hist.pended <=> b \notin hist.write_failed
                 /\ (past_await /\ pc # "upload_call" /\ b \notin hist.write_failed)
                        => excel_path(b) \in hist.upload_inputs

\* C21's case: the first task of a chunk raised, and the file of the second
\* is in the batch of the running upload call.
C21_Witness ==
    /\ pc = "upload_attempt"
    /\ \E a, b \in current_names :
         /\ a < b
         /\ hist.outcome[a] = "raised"
         /\ hist.outcome[b] = "data"
         /\ excel_path(b) \in hist.upload_inputs

\* C22: when a page fetch of one task of a chunk of two hangs, the
\* orchestrator still gets past the second loop of that chunk, to its uploads
\* and on to the later chunks.
C22_HangStallsOnlyItsSlot ==
    (/\ Len(tasks) = 2
     /\ \E i \in 1..Len(tasks) : tasks[i].status = "hung") ~> past_await

\* C23: a run whose setup succeeded ends in the done state.
C23_Terminates == (hist.setup = "ok") ~> (pc = "done")

\* C23's case: a run over two chunks has ended, the first chunk having had
\* an upload call without a folder and the second a failed Excel write.
C23_Witness ==
    /\ pc = "done"
    /\ chunk_index = 2
    /\ hist.upload_calls = 1
    /\ drive.folders = <<>>
    /\ hist.write_failed # {}

\* s is an initial part of t.
is_prefix(s, t) == Len(s) <= Len(t) /\ SubSeq(t, 1, Len(s)) = s

\* The place of a page in the order of the two loops.
page_index(urls, key) ==
    CHOOSE k \in 1..Len(all_pages(urls, 1)) : all_pages(urls, 1)[k] = key

\* C24: a task fetches the pages of its sources in listed order, pages
\* 1..page_count ascending, each once and no other page; a task that returns
\* has fetched them all; its records are in the order of their fetches.
C24_FetchOrder ==
    \A i \in 1..Len(tasks) :
        LET t == tasks[i] IN
        /\ is_prefix(t.fetched, all_pages(t.urls, 1))
        /\ (t.status = "returned" /\ t.src > 0) => t.fetched = all_pages(t.urls, 1)
        /\ \A a, b \in 1..Len(t.card_data) :
             a < b => page_index(t.urls, t.card_data[a].page)
                        <= page_index(t.urls, t.card_data[b].page)

\* C24's case: a task has returned with records of two different pages.
C24_Witness ==
    \E i \in 1..Len(tasks) :
        /\ tasks[i].status = "returned"
        /\ Len(tasks[i].fetched) >= 2
        /\ Len(tasks[i].card_data) >= 2
        /\ tasks[i].card_data[1].page # tasks[i].card_data[Len(tasks[i].card_data)].page

\* C25: the upload call is made at most once in a chunk, only with pending
\* uploads and then with all of them in its batch, and after the second loop
\* it has been made iff the chunk has pending uploads; in a chunk without the
\* call nothing is looked up, created, uploaded or removed.
C25_UploadIffPending ==
    /\ hist.chunk_upload_calls <= 1
    /\ pc = "upload_call" => pending_uploads # <<>> /\ hist.chunk_upload_calls = 0
    /\ hist.chunk_upload_calls = 1 =>
         /\ hist.pended # {}
         /\ hist.upload_inputs = hist.pended
         /\ hist.upload_inputs = {pending_uploads[k] : k \in batch}
    /\ (past_await /\ pc # "upload_call") =>
         (hist.chunk_upload_calls = 1 <=> hist.pended # {})
    /\ hist.chunk_upload_calls = 0 =>
         /\ up = no_upload
         /\ hist.upload_inputs = {}
         /\ hist.uploaded = {}
         /\ hist.removed = {}

\* C25's case: the first chunk had its upload call, the second chunk had
\* nothing pending, and the run has ended with that one call.
C25_Witness ==
    /\ pc = "done"
    /\ chunk_index = 2
    /\ hist.upload_calls = 1
    /\ hist.chunk_upload_calls = 0
    /\ \E name \in current_names : hist.outcome[name] = "empty"

\* C26: the inter-chunk delay is slept after a chunk iff it is not the last:
\* one delay lies before every chunk but the first, and a run over K chunks
\* ends with max(K-1, 0) delays slept.
C26_DelayBetweenChunks ==
    LET K == Len(contractingANDservices_chunks) IN
    /\ pc = "chunk_delay" => chunk_index < K
    /\ (chunk_over /\ chunk_index < K) => pc = "chunk_delay"
    /\ hist.chunk_delays = (IF chunk_index > 0 THEN chunk_index - 1 ELSE 0)
    /\ pc = "done" => hist.chunk_delays = (IF K > 0 THEN K - 1 ELSE 0)

\* C26's case: a run over two chunks has ended after one delay.
C26_Witness ==
    /\ pc = "done"
    /\ Len(contractingANDservices_chunks) = 2
    /\ hist.chunk_delays = 1

\* The pages requested so far for the brand element k, in request order.
pages_fetched(k) ==
    LET at == SelectSeq(pure.fetched, LAMBDA key : key[1] = k)
    IN  [i \in 1..Len(at) |-> at[i][2]]

\* The page loop of the brand element k is over.
brand_over(k) == pure.brand > k \/ pure.pc # "scrape"

\* The page limit the brand element k is entitled to.
page_limit(k) ==
    IF pure.elements[k][1] \in pure.specific_brands
    THEN pure.specific_pages ELSE pure.num_pages

\* C27: a fetch failure on a page of a brand does not abort the brand: once
\* the brand's loop is over, the page after a failed one (when the limit has
\* one) was fetched too.
C27_FailedPageDoesNotAbortBrand ==
    pure.op = "medical" =>
        \A key \in pure.failed :
            (brand_over(key[1]) /\ key[2] < page_limit(key[1]))
                => \E i \in 1..Len(pure.fetched) :
                       pure.fetched[i] = <<key[1], key[2] + 1>>

\* C28: the local Excel file is deleted only after upload_file returned for
\* it; when the upload call has failed, the file is still on disk and the
\* run has raised to its caller.
C28_RemoveOnlyAfterUpload ==
    pure.op = "medical" =>
        /\ pure.removed => pure.uploaded
        /\ ~pure.on_disk /\ pure.excel_file # None => pure.uploaded
        /\ (pure.attempts > 0 /\ ~pure.uploaded /\ pure.pc # "upload")
               => (pure.pc = "raised" /\ pure.on_disk /\ ~pure.removed)

\* The upload was given up after the last retry; the file is on disk.
C28_Witness ==
    /\ pure.op = "medical"
    /\ pure.pc = "raised"
    /\ pure.attempts = stop_after_attempt
    /\ ~pure.uploaded
    /\ pure.on_disk

\* C29: the pages of a brand are requested in ascending order from 1, at
\* most specific_pages of them for a brand named in specific_brands and at
\* most num_pages for any other; specific_pages not supplied is num_pages.
C29_PageLimitPerBrand ==
    pure.op = "medical" =>
        /\ pure.supplied = <<>> => pure.specific_pages = pure.num_pages
        /\ \A k \in 1..Len(pure.elements) :
               /\ Len(pages_fetched(k)) <= page_limit(k)
               /\ \A i \in 1..Len(pages_fetched(k)) : pages_fetched(k)[i] = i

\* A named brand was fetched up to its own limit, which differs from the
\* default, and another brand up to the default.
C29_Witness ==
    /\ pure.op = "medical"
    /\ pure.pc = "save"
    /\ Len(pure.elements) = 3
    /\ pure.specific_brands = {"a"}
    /\ pure.specific_pages # pure.num_pages
    /\ Len(pages_fetched(1)) = pure.specific_pages
    /\ Len(pages_fetched(3)) = pure.num_pages
    /\ pages_fetched(2) = <<>>

\* C30: a folder is created only when the store has no folder of that name:
\* the store never holds two folders of the same name.
C30_CreateOnlyWhenAbsent ==
    \A a, b \in 1..Len(drive.folders) :
        a # b => drive.folders[a] # drive.folders[b]

\* C31: every slot a task acquired is released when the task ends, by return
\* or by exception: once all tasks of a chunk were awaited every slot is
\* free, and a task that waits for a slot either has a free slot to take or
\* waits for a task that is still running inside the guarded section.
C31_SlotsReleased ==
    hist.setup = "ok" =>
        /\ past_await => semaphore = self.max_concurrent_links
        /\ \A i \in 1..Len(tasks) :
               tasks[i].status = "acquiring" => (inside # {} \/ semaphore > 0)

\* A later chunk is over, its tasks ended one by exception and one by
\* return, and every slot is free.
C31_Witness ==
    /\ chunk_index = 2
    /\ past_await
    /\ semaphore = self.max_concurrent_links
    /\ \E i \in 1..Len(tasks) : tasks[i].status = "raised"
    /\ hist.chunk_delays = 1

\* C32: main() of the services entry point ends without an unhandled error:
\* once it has left the first scraper's run, the second (medical) step has
\* started and main() has returned.
C32_MainCompletes ==
    (pure.op = "main" /\ pure.pc # "scrape_all")
        => (pure.second_started /\ pure.pc = "returned")

\* C33: save_files resolves the folder once, before any upload, and uploads
\* the files in list order into that one folder; the first failing
\* create_folder or upload_file call raises out of it: nothing after the
\* failing file is uploaded and no call is repeated.
C33_SaveFilesSequential ==
    pure.op = "save_files" =>
        /\ pure.get_calls = (IF pure.pc = "resolve" THEN 0 ELSE 1)
        /\ pure.create_calls <= 1
        /\ pure.upload_calls > 0 => pure.folder_id \in 1..Len(drive.folders)
        /\ Len(pure.uploaded) <= Len(pure.files)
        /\ \A k \in 1..Len(pure.uploaded) :
               pure.uploaded[k] = <<pure.files[k], pure.folder_id>>
        /\ pure.pc = "upload" => pure.upload_calls = Len(pure.uploaded)
        /\ pure.pc = "returned" =>
               /\ Len(pure.uploaded) = Len(pure.files)
               /\ pure.upload_calls = Len(pure.files)
        /\ pure.pc = "raised" =>
               \/ pure.folder_id = 0 /\ pure.create_calls = 1 /\ pure.upload_calls = 0
               \/ pure.folder_id # 0 /\ pure.upload_calls = Len(pure.uploaded) + 1

\* The folder was created, the first file uploaded, the second upload raised
\* out of save_files.
C33_Witness ==
    /\ pure.op = "save_files"
    /\ pure.pc = "raised"
    /\ Len(pure.files) = 2
    /\ pure.files[1] # pure.files[2]
    /\ Len(pure.uploaded) = 1
    /\ pure.create_calls = 1
    /\ Len(drive.folders) = 2

====
